---------------------------- MODULE Spec2Model ----------------------------
(***************************************************************************)
(* Orchestration core of AI_Novel_Writer (package novel_writer):           *)
(*   - APIKeyManager / LLMConfig   (src/src/novel_writer/config/llm.py)     *)
(*   - BaseAgent._get_llm_response (src/src/novel_writer/agents/            *)
(*                                  base_agent.py)                          *)
(*   - FacilitatorAgent            (src/src/novel_writer/agents/            *)
(*                                  facilitator_agent.py)                   *)
(*                                                                         *)
(* Specifications over the same variables:                                 *)
(*   Spec        the APIKeyManager driven through its public methods       *)
(*               get_current_key and mark_key_exhausted;                   *)
(*   SpecKeys    Spec with calls of get_api_key as well;                   *)
(*   SpecRun     configuration building followed by runs of                *)
(*               FacilitatorAgent.generate_idea, every outbound request    *)
(*               going through LLMConfig.get_completion;                   *)
(*   SpecRunFair SpecRun where a run in progress keeps taking steps;       *)
(*   SpecFn      functions of the package called on their own.             *)
(***************************************************************************)
EXTENDS Integers, Sequences, FiniteSets, TLC

---------------------------------------------------------------------------
(* Bounds of the model *)

\* largest number of free-tier keys added with add_free_key
MaxFree == 2
\* largest number of paid-tier keys added with add_paid_key
MaxPaid == 2
\* longest sequence of manager calls explored under Spec
MaxOps == 6
\* largest number of pitches the pitch parser returns in a run
MaxPitches == 1
\* largest number of generate_idea calls made on one FacilitatorAgent
MaxRuns == 2
\* longest list of pitches or evaluations passed to a function called on
\* its own
MaxCands == 2
\* largest number of score lines in an evaluation
MaxScores == 2
\* lines of an evaluation reply under its first header
MaxLines == 3

---------------------------------------------------------------------------
(* State *)

VARIABLES
  \* APIKeyManager fields (llm.py 35-39)
  free_keys,          \* list of free keys, in add_free_key order
  paid_keys,          \* list of paid keys, in add_paid_key order
  current_key_index,  \* 0-based cursor, shared by both lists
  using_free_keys,    \* bool
  exhausted_keys,     \* set of keys
  \* observation of the calls made on the manager
  ret,                \* result of the latest get_current_key call
  hist,               \* the get_current_key and mark_key_exhausted calls
                      \* made so far, oldest first
  \* LLMConfig fields (llm.py 185-192)
  has_manager,        \* api_key_manager is not None
  single_api_key,     \* NoKey or the key given as api_key
  is_using_free_model,
  \* the thread of control
  pc,                 \* "startup", "startup_failed", "idle", or the stage
                      \* handler being executed
  step,               \* "call": the handler is about to call its
                      \* collaborator; "awaiting": an outbound request is
                      \* in flight; "done": the handler has returned
  args,               \* which of tone, themes generate_idea was given
  runs,               \* generate_idea calls made so far
  outcome,            \* how the latest generate_idea call ended
  \* the outbound request of the handler (get_completion)
  attempts,           \* calls of the service made for the request
  req_key,            \* key the client of the request was built with
  lastErr,            \* "none", or the kind of error the request raised
  requests,           \* history: for each handler, the requests sent to
                      \* the service since generate_idea was called
  \* State fields (facilitator_agent.py 42-54)
  stage,
  genre_data,         \* where genre, subgenre, tone, themes come from
  pitches,
  evaluations,
  improved_pitches,
  selected_pitch,
  trope_analysis,
  \* locals of the collaborator loops
  acc,                \* the list being built (evaluations, improved_pitches)
  pos,                \* 1-based position of the loop
  \* observation: the values stage took in the current run
  runTrace,
  \* the documentation step
  selection_data,     \* local of generate_idea: what _run_pitch_selection
                      \* returned
  sink,               \* the arguments compile_idea was called with
  \* the pitch generation step
  pitch_response,     \* local of generate_pitches: the reply of the service
  \* a function of the package called on its own
  fn_args,            \* the function and the arguments of the call
  fn_result           \* what the call returned, NoResult before it returns

mgrVars == <<free_keys, paid_keys, current_key_index, using_free_keys,
             exhausted_keys>>

\* keys are opaque strings; the i-th key added to a pool is named by its
\* pool and position
FreeKey(i) == <<"free", i>>
PaidKey(i) == <<"paid", i>>

Range(s) == {s[i] : i \in 1..Len(s)}

\* the manager as one value, for the operators below
Mgr == [free_keys |-> free_keys, paid_keys |-> paid_keys,
        current_key_index |-> current_key_index,
        using_free_keys |-> using_free_keys,
        exhausted_keys |-> exhausted_keys]

SetMgr(m) ==
  /\ free_keys' = m.free_keys
  /\ paid_keys' = m.paid_keys
  /\ current_key_index' = m.current_key_index
  /\ using_free_keys' = m.using_free_keys
  /\ exhausted_keys' = m.exhausted_keys

\* APIKeyManager.__init__ followed by nF add_free_key and nP add_paid_key
\* calls with distinct keys
NewManager(nF, nP) ==
  [free_keys |-> [i \in 1..nF |-> FreeKey(i)],
   paid_keys |-> [i \in 1..nP |-> PaidKey(i)],
   current_key_index |-> 0,
   using_free_keys |-> TRUE,
   exhausted_keys |-> {}]

---------------------------------------------------------------------------
(* APIKeyManager methods as functions of the manager value *)

\* all(key in self.exhausted_keys for key in keys_list)
AllExhausted(keys_list, exhausted) ==
  \A i \in 1..Len(keys_list) : keys_list[i] \in exhausted

\* the pool that get_current_key and rotate_key work on: the branch
\* condition `self.using_free_keys and self.free_keys`
ActiveIsFree(m) == m.using_free_keys /\ m.free_keys # <<>>
ActivePool(m) == IF ActiveIsFree(m) THEN m.free_keys ELSE m.paid_keys

\* the reset of get_current_key (llm.py 90-94): what the exhausted set is
\* after the check on keys_list
ResetIfAllExhausted(keys_list, exhausted) ==
  IF AllExhausted(keys_list, exhausted) THEN {} ELSE exhausted

\* keys_list[self.current_key_index % len(keys_list)]
KeyAtCursor(keys_list, idx) == keys_list[(idx % Len(keys_list)) + 1]

\* get_current_key with a reset that also goes back to the free tier
get_current_key_switch_back(m) ==
  IF m.using_free_keys /\ m.free_keys # <<>>
  THEN LET ex == ResetIfAllExhausted(m.free_keys, m.exhausted_keys)
       IN  [m |-> [m EXCEPT !.exhausted_keys = ex],
            ret |-> [kind |-> "key",
                     key |-> KeyAtCursor(m.free_keys, m.current_key_index),
                     is_free |-> TRUE]]
  ELSE IF m.paid_keys # <<>>
  THEN LET idx == IF m.using_free_keys THEN 0 ELSE m.current_key_index
           ex == ResetIfAllExhausted(m.paid_keys, m.exhausted_keys)
       IN  [m |-> [m EXCEPT !.using_free_keys =
                              AllExhausted(m.paid_keys, m.exhausted_keys),
                            !.current_key_index = idx,
                            !.exhausted_keys = ex],
            ret |-> [kind |-> "key",
                     key |-> KeyAtCursor(m.paid_keys, idx),
                     is_free |-> FALSE]]
  ELSE [m |-> m, ret |-> [kind |-> "ValueError"]]

\* get_current_key (llm.py 61-98): the manager after the call and what the
\* call gives back
get_current_key(m) ==
  IF m.using_free_keys /\ m.free_keys # <<>>
  THEN LET ex == ResetIfAllExhausted(m.free_keys, m.exhausted_keys)
       IN  [m |-> [m EXCEPT !.exhausted_keys = ex],
            ret |-> [kind |-> "key",
                     key |-> KeyAtCursor(m.free_keys, m.current_key_index),
                     is_free |-> TRUE]]
  ELSE IF m.paid_keys # <<>>
  THEN LET idx == IF m.using_free_keys THEN 0 ELSE m.current_key_index
           ex == ResetIfAllExhausted(m.paid_keys, m.exhausted_keys)
       IN  [m |-> [m EXCEPT !.using_free_keys = FALSE,
                            !.current_key_index = idx,
                            !.exhausted_keys = ex],
            ret |-> [kind |-> "key",
                     key |-> KeyAtCursor(m.paid_keys, idx),
                     is_free |-> FALSE]]
  ELSE [m |-> m, ret |-> [kind |-> "ValueError"]]

\* rotate_key without the switch to the paid tier
rotate_key_no_switch(m) ==
  IF m.using_free_keys /\ m.free_keys # <<>>
  THEN [m EXCEPT !.current_key_index =
                    (m.current_key_index + 1) % Len(m.free_keys)]
  ELSE IF m.paid_keys # <<>>
  THEN [m EXCEPT !.current_key_index =
                    (m.current_key_index + 1) % Len(m.paid_keys)]
  ELSE m

\* rotate_key (llm.py 110-126)
rotate_key(m) ==
  IF m.using_free_keys /\ m.free_keys # <<>>
  THEN LET idx == (m.current_key_index + 1) % Len(m.free_keys)
       IN  IF AllExhausted(m.free_keys, m.exhausted_keys)
           THEN [m EXCEPT !.using_free_keys = FALSE, !.current_key_index = 0]
           ELSE [m EXCEPT !.current_key_index = idx]
  ELSE IF m.paid_keys # <<>>
  THEN [m EXCEPT !.current_key_index =
                    (m.current_key_index + 1) % Len(m.paid_keys)]
  ELSE m

\* mark_key_exhausted (llm.py 100-108)
mark_key_exhausted(m, key) ==
  rotate_key([m EXCEPT !.exhausted_keys = @ \cup {key}])

\* self.free_keys[self.current_key_index] and its paid twin (llm.py 141,
\* 146): a list indexed at or beyond its length raises IndexError
IndexedAt(keys_list, idx, is_free) ==
  IF idx < Len(keys_list)
  THEN [kind |-> "key", key |-> keys_list[idx + 1], is_free |-> is_free]
  ELSE [kind |-> "IndexError"]

\* one branch of get_api_key: index the pool, then advance the cursor
\* modulo the size of that pool; nothing is assigned when indexing raises
TakeFrom(m, keys_list, is_free) ==
  LET r == IndexedAt(keys_list, m.current_key_index, is_free)
  IN  [m |-> IF r.kind = "key"
             THEN [m EXCEPT !.current_key_index =
                              (m.current_key_index + 1) % Len(keys_list)]
             ELSE m,
       ret |-> r]

\* APIKeyManager.get_api_key (llm.py 128-151)
get_api_key(m, use_free) ==
  IF use_free /\ m.free_keys # <<>>
  THEN TakeFrom(m, m.free_keys, TRUE)
  ELSE IF m.paid_keys # <<>>
  THEN TakeFrom(m, m.paid_keys, FALSE)
  ELSE [m |-> m, ret |-> [kind |-> "ValueError"]]

---------------------------------------------------------------------------
(* Values of the workflow *)

\* GenerationStage (facilitator_agent.py 27-38); StageOrder is the order
\* in which generate_idea calls the _run_* handlers (310-337), each of
\* which sets state.stage to its own value first
StageOrder ==
  << "GENRE_SELECTION", "PITCH_GENERATION", "CRITIC_EVALUATION",
     "PITCH_IMPROVEMENT", "PITCH_SELECTION", "TROPE_ANALYSIS",
     "DOCUMENTATION" >>

\* handlers whose collaborator sends a prompt to the service
RequestStages == Range(StageOrder) \ {"DOCUMENTATION"}

\* position of a handler in generate_idea
StagePos(h) == CHOOSE n \in 1..Len(StageOrder) : StageOrder[n] = h

\* generate_idea with the improvement step left out
NextHandler_skip_improvement(h) ==
  IF h = "CRITIC_EVALUATION" THEN "PITCH_SELECTION"
  ELSE StageOrder[StagePos(h) + 1]

\* the handler generate_idea calls after handler h has returned
NextHandler(h) == StageOrder[StagePos(h) + 1]

\* threshold_score = 7.5 (facilitator_agent.py 554), in hundredths
ThresholdScore == 750

\* overall scores an evaluation can carry, in hundredths: just below the
\* threshold and exactly on it
Scores == {ThresholdScore - 1, ThresholdScore}

\* an evaluation as _improve_pitches reads it: has_overall says whether
\* the key "overall_score" is present, scores holds the values of the
\* "scores" dict (empty when the dict is empty or absent: both leave
\* avg_score at 0)
Evaluation(has_overall, overall_score, scores) ==
  [has_overall |-> has_overall, overall_score |-> overall_score,
   scores |-> scores]

\* the evaluation _parse_evaluation builds from a reply whose score lines
\* give the overall score s (critic_agent.py 234-235, 252-254)
ParsedEvaluation(s) == Evaluation(TRUE, s, <<s>>)

RECURSIVE SumSeq(_)
\* sum(scores.values())
SumSeq(q) == IF q = <<>> THEN 0 ELSE q[1] + SumSeq(Tail(q))

\* avg_score of _improve_pitches (facilitator_agent.py 562-569), in
\* hundredths; the quotient is rounded down, which changes no comparison
\* with a whole number of hundredths
avg_score(evaluation) ==
  IF evaluation.has_overall THEN evaluation.overall_score
  ELSE IF evaluation.scores # <<>>
       THEN SumSeq(evaluation.scores) \div Len(evaluation.scores)
       ELSE 0

\* a threshold that also sends a pitch scored exactly 7.5
NeedsImprovement_inclusive(evaluation) ==
  avg_score(evaluation) <= ThresholdScore

\* `if avg_score < threshold_score` (facilitator_agent.py 573)
NeedsImprovement(evaluation) ==
  avg_score(evaluation) < ThresholdScore

\* State.selected_pitch = {} and State.trope_analysis = {}
EmptyPitch == [title |-> 0, improved |-> FALSE]

\* the n pitches the pitch parser returns, with titles 1..n
ParsedPitches(n) == [k \in 1..n |-> [title |-> k, improved |-> FALSE]]

\* a title the improver gives a pitch when it renames it
RevisedTitle(t) == t + 100

NoArgs == [tone |-> FALSE, themes |-> FALSE]

\* no key (None)
NoKey == <<"none", 0>>
\* the key passed as api_key to LLMConfig
SingleKey == <<"single", 1>>

ctlVars == <<pc, step, args, runs, outcome>>
reqVars == <<attempts, req_key, lastErr, requests>>
stateVars == <<stage, genre_data, pitches, evaluations, improved_pitches,
               selected_pitch, trope_analysis>>
loopVars == <<acc, pos>>
cfgVars == <<has_manager, single_api_key, is_using_free_model>>
docVars == <<selection_data, sink>>
runVars == <<cfgVars, ctlVars, reqVars, stateVars, loopVars, runTrace,
             docVars, pitch_response>>

\* generate_pitches is not running, or has no reply yet
NoResponse == [blocks |-> 0, style |-> "none", preamble |-> FALSE]

\* no selection made yet in the call of generate_idea
NoSelection == [keys |-> {}]
\* compile_idea not called yet in the call of generate_idea
NoSink == [called |-> FALSE]

fnVars == <<fn_args, fn_result>>

vars == <<mgrVars, ret, hist, runVars, fnVars>>

\* no function called on its own
NoCall == [fn |-> "none"]
NoResult == [kind |-> "none"]
NothingCalled ==
  /\ fn_args = NoCall
  /\ fn_result = NoResult

\* the attributes State.__init__ creates (facilitator_agent.py 43-54);
\* update() assigns only attributes that exist (58-60) and no statement of
\* the package creates another one
StateAttributes ==
  { "stage", "genre", "subgenre", "tone", "themes", "pitches",
    "evaluations", "improved_pitches", "selected_pitch", "trope_analysis",
    "output_path", "data" }

\* State.__init__ (facilitator_agent.py 42-54)
NewState ==
  /\ stage = "INITIAL"
  /\ genre_data = "unset"
  /\ pitches = <<>>
  /\ evaluations = <<>>
  /\ improved_pitches = <<>>
  /\ selected_pitch = EmptyPitch
  /\ trope_analysis = "unset"

\* no configuration built, no workflow started
\* no request sent yet
NoRequests == [h \in RequestStages |-> 0]

NothingRun ==
  /\ requests = NoRequests
  /\ has_manager = FALSE
  /\ single_api_key = NoKey
  /\ is_using_free_model = FALSE
  /\ pc = "startup"
  /\ step = "done"
  /\ args = NoArgs
  /\ runs = 0
  /\ outcome = "none"
  /\ attempts = 0
  /\ req_key = NoKey
  /\ lastErr = "none"
  /\ NewState
  /\ acc = <<>>
  /\ pos = 1
  /\ runTrace = <<>>
  /\ selection_data = NoSelection
  /\ sink = NoSink
  /\ pitch_response = NoResponse

---------------------------------------------------------------------------
(* Spec: the manager under calls of its public methods *)

NoRet == [kind |-> "none"]

Init ==
  /\ \E nF \in 0..MaxFree, nP \in 0..MaxPaid :
       /\ free_keys = NewManager(nF, nP).free_keys
       /\ paid_keys = NewManager(nF, nP).paid_keys
  /\ current_key_index = 0
  /\ using_free_keys = TRUE
  /\ exhausted_keys = {}
  /\ ret = NoRet
  /\ hist = <<>>
  /\ NothingRun
  /\ NothingCalled

\* a caller acquires a key
GetCurrentKey ==
  /\ UNCHANGED fnVars
  /\ Len(hist) < MaxOps
  /\ LET r == get_current_key(Mgr)
     IN  /\ SetMgr(r.m)
         /\ ret' = r.ret
  /\ hist' = Append(hist, <<"get">>)
  /\ UNCHANGED runVars

\* a caller reports a key of the active pool exhausted
MarkKeyExhausted(key) ==
  /\ UNCHANGED fnVars
  /\ Len(hist) < MaxOps
  /\ key \in Range(ActivePool(Mgr))
  /\ SetMgr(mark_key_exhausted(Mgr, key))
  /\ hist' = Append(hist, <<"mark", key>>)
  /\ UNCHANGED <<ret, runVars>>

AllKeys == Range(free_keys) \cup Range(paid_keys)

Next ==
  \/ GetCurrentKey
  \/ \E key \in AllKeys : MarkKeyExhausted(key)

Spec == Init /\ [][Next]_vars

\* a caller takes a key with get_api_key, directly or through
\* LLMConfig._get_api_key (llm.py 334-346), which passes
\* _is_using_free_model
GetApiKey(use_free) ==
  /\ UNCHANGED fnVars
  /\ LET r == get_api_key(Mgr, use_free)
     IN  /\ SetMgr(r.m)
         /\ ret' = r.ret
  /\ UNCHANGED <<hist, runVars>>

NextKeys ==
  \/ GetCurrentKey
  \/ \E key \in AllKeys : MarkKeyExhausted(key)
  \/ \E use_free \in BOOLEAN : GetApiKey(use_free)

\* SpecKeys: the manager under calls of all its methods that read keys
SpecKeys == Init /\ [][NextKeys]_vars

---------------------------------------------------------------------------
(* SpecRun: the configuration is built, then generate_idea runs *)

InitRun ==
  /\ free_keys = <<>>
  /\ paid_keys = <<>>
  /\ current_key_index = 0
  /\ using_free_keys = TRUE
  /\ exhausted_keys = {}
  /\ ret = NoRet
  /\ hist = <<>>
  /\ NothingRun
  /\ NothingCalled

\* LLMConfig.__init__ (llm.py 182-183):
\* `if not api_key_manager and not api_key: raise ValueError`;
\* an APIKeyManager object is truthy whatever its pools hold
LLMConfigRaises(manager_given, api_key) ==
  ~manager_given /\ api_key = NoKey

\* LLMConfig(api_key_manager, api_key) on a manager m, followed, when it
\* does not raise, by FacilitatorAgent(llm_config)
BuildConfig(m, manager_given, api_key) ==
  /\ SetMgr(m)
  /\ IF LLMConfigRaises(manager_given, api_key)
     THEN /\ pc' = "startup_failed"
          /\ UNCHANGED <<has_manager, single_api_key>>
     ELSE /\ pc' = "idle"
          /\ has_manager' = manager_given
          /\ single_api_key' = api_key
  /\ UNCHANGED <<ret, hist, is_using_free_model, step, args, runs, outcome,
                 reqVars, stateVars, loopVars, runTrace>>

\* setup_llm_config (cli.py 132-165): free_set, paid_set say whether
\* OPENROUTER_FREE_API_KEY and OPENROUTER_API_KEY are set
SetupLlmConfig(free_set, paid_set) ==
  /\ UNCHANGED <<fnVars, docVars, pitch_response>>
  /\ pc = "startup"
  /\ LET m == NewManager(IF free_set THEN 1 ELSE 0,
                         IF paid_set THEN 1 ELSE 0)
     IN  IF ~free_set /\ ~paid_set
         THEN /\ SetMgr(m)
              /\ pc' = "startup_failed"
              /\ UNCHANGED <<ret, hist, cfgVars, step, args, runs, outcome,
                             reqVars, stateVars, loopVars, runTrace>>
         ELSE BuildConfig(m, TRUE, NoKey)

\* a client of the package builds the configuration itself, around a
\* new APIKeyManager to which no key was added or around no manager, with
\* an api_key or none (a manager holding keys is the one SetupLlmConfig
\* builds)
LLMConfigDirect(manager_given, api_key) ==
  /\ UNCHANGED <<fnVars, docVars, pitch_response>>
  /\ pc = "startup"
  /\ BuildConfig(NewManager(0, 0), manager_given, api_key)

\* an except clause that re-raises and leaves the stage as it is
Raise_stage_kept ==
  /\ pc' = "idle"
  /\ step' = "done"
  /\ outcome' = "raised"
  /\ acc' = <<>>
  /\ pos' = 1
  /\ UNCHANGED <<args, runs, stateVars, runTrace>>

\* the except clause of generate_idea (facilitator_agent.py 354-360)
Raise ==
  /\ stage' = "ERROR"
  /\ runTrace' = Append(runTrace, "ERROR")
  /\ pc' = "idle"
  /\ step' = "done"
  /\ outcome' = "raised"
  /\ acc' = <<>>
  /\ pos' = 1
  /\ UNCHANGED <<args, runs, genre_data, pitches, evaluations,
                 improved_pitches, selected_pitch, trope_analysis>>

\* GenreVibeAgent.process turns any exception into an error result
\* (genre_vibe_agent.py 335-342) and _determine_genre_tone_themes then
\* returns its defaults (facilitator_agent.py 396-429);
\* _run_genre_selection stores them and returns
GenreFallback ==
  /\ genre_data' = "default"
  /\ step' = "done"
  /\ UNCHANGED <<pc, args, runs, outcome, stage, pitches, evaluations,
                 improved_pitches, selected_pitch, trope_analysis,
                 loopVars, runTrace>>

\* an exception leaves the collaborator of the current handler
CollaboratorRaises ==
  IF pc = "GENRE_SELECTION" THEN GenreFallback ELSE Raise

\* the request of the current handler raised an error of the given kind:
\* get_completion logs and re-raises (llm.py 285-287), _get_llm_response
\* wraps and raises (base_agent.py 112-115)
RequestFails(kind) ==
  /\ lastErr' = kind
  /\ UNCHANGED <<attempts, req_key, requests>>
  /\ CollaboratorRaises

\* generate_idea is called and enters _run_genre_selection
\* (facilitator_agent.py 310-313, 112)
StartGenerateIdea(a) ==
  /\ UNCHANGED fnVars
  /\ selection_data' = NoSelection
  /\ sink' = NoSink
  /\ pitch_response' = NoResponse
  /\ pc = "idle"
  /\ runs < MaxRuns
  /\ pc' = "GENRE_SELECTION"
  /\ step' = "call"
  /\ args' = a
  /\ runs' = runs + 1
  /\ outcome' = "none"
  /\ stage' = "GENRE_SELECTION"
  /\ runTrace' = <<"GENRE_SELECTION">>
  /\ attempts' = 0
  /\ requests' = NoRequests
  /\ req_key' = NoKey
  /\ lastErr' = "none"
  /\ acc' = <<>>
  /\ pos' = 1
  /\ UNCHANGED <<mgrVars, ret, hist, cfgVars, genre_data, pitches,
                 evaluations, improved_pitches, selected_pitch,
                 trope_analysis>>

\* the handler has returned and generate_idea calls the next one, which
\* sets state.stage (facilitator_agent.py 137, 158, 180, 203, 241, 266);
\* genre, tone and themes were passed to _run_genre_selection only
EnterHandler ==
  /\ UNCHANGED <<fnVars, docVars>>
  /\ pitch_response' = NoResponse
  /\ pc \in RequestStages
  /\ step = "done"
  /\ pc' = NextHandler(pc)
  /\ stage' = NextHandler(pc)
  /\ runTrace' = Append(runTrace, NextHandler(pc))
  /\ step' = "call"
  /\ attempts' = 0
  /\ requests' = requests
  /\ req_key' = NoKey
  /\ lastErr' = "none"
  /\ acc' = <<>>
  /\ pos' = 1
  /\ args' = NoArgs
  /\ UNCHANGED <<mgrVars, ret, hist, cfgVars, runs, outcome,
                 genre_data, pitches, evaluations, improved_pitches,
                 selected_pitch, trope_analysis>>

\* GenreVibeAgent.process with tone and themes given: no request
\* (genre_vibe_agent.py 303-306)
GenreProvided ==
  /\ UNCHANGED <<fnVars, docVars, pitch_response>>
  /\ pc = "GENRE_SELECTION"
  /\ step = "call"
  /\ args.tone /\ args.themes
  /\ genre_data' = "provided"
  /\ step' = "done"
  /\ UNCHANGED <<mgrVars, ret, hist, cfgVars, pc, args, runs, outcome,
                 reqVars, stage, pitches, evaluations, improved_pitches,
                 selected_pitch, trope_analysis, loopVars, runTrace>>

\* whether the collaborator of the current handler sends a prompt now
NeedsRequest ==
  /\ pc \in RequestStages
  /\ pc = "GENRE_SELECTION" => ~(args.tone /\ args.themes)
  /\ pc = "PITCH_IMPROVEMENT" => NeedsImprovement(evaluations[pos])

\* one more request sent to the service by the collaborator of handler h
Sent(counts, h) == [counts EXCEPT ![h] = @ + 1]

\* BaseAgent._get_llm_response calls LLMConfig.get_completion, which
\* builds the client with _get_current_key (llm.py 203-216, 258) and
\* awaits the service
SendRequest ==
  /\ UNCHANGED <<fnVars, docVars, pitch_response>>
  /\ step = "call"
  /\ NeedsRequest
  /\ hist' = hist
  /\ IF has_manager
     THEN LET r == get_current_key(Mgr)
          IN  /\ SetMgr(r.m)
              /\ ret' = r.ret
              /\ IF r.ret.kind = "key"
                 THEN /\ is_using_free_model' = r.ret.is_free
                      /\ attempts' = 1
                      /\ requests' = Sent(requests, pc)
                      /\ req_key' = r.ret.key
                      /\ lastErr' = "none"
                      /\ step' = "awaiting"
                      /\ UNCHANGED <<has_manager, single_api_key, pc, args,
                                     runs, outcome, stateVars, loopVars,
                                     runTrace>>
                 ELSE /\ lastErr' = "other"
                      /\ attempts' = 1
                      /\ requests' = requests
                      /\ req_key' = NoKey
                      /\ CollaboratorRaises
                      /\ UNCHANGED cfgVars
     ELSE /\ attempts' = 1
          /\ requests' = Sent(requests, pc)
          /\ req_key' = SingleKey
          /\ lastErr' = "none"
          /\ step' = "awaiting"
          /\ UNCHANGED <<mgrVars, ret, cfgVars, pc, args, runs, outcome,
                         stateVars, loopVars, runTrace>>

\* a request loop that reports the key and sends the request again,
\* whatever the error, until the third attempt has failed
ServiceReplyError_retry_any(kind) ==
  /\ UNCHANGED <<fnVars, docVars, pitch_response>>
  /\ step = "awaiting"
  /\ IF attempts < 3
     THEN /\ IF has_manager
             THEN SetMgr(mark_key_exhausted(Mgr, req_key))
             ELSE UNCHANGED mgrVars
          /\ attempts' = attempts + 1
          /\ requests' = Sent(requests, pc)
          /\ lastErr' = kind
          /\ UNCHANGED <<ret, hist, cfgVars, req_key, ctlVars, stateVars,
                         loopVars, runTrace>>
     ELSE /\ RequestFails(kind)
          /\ UNCHANGED <<mgrVars, ret, hist, cfgVars>>

\* the awaited call raises: kind "rate_limit" for an error whose message
\* indicates rate limiting, quota or capacity, "other" for any other
ServiceReplyError(kind) ==
  /\ UNCHANGED <<fnVars, docVars, pitch_response>>
  /\ step = "awaiting"
  /\ RequestFails(kind)
  /\ UNCHANGED <<mgrVars, ret, hist, cfgVars>>

\* what an action inside a handler leaves alone besides the State fields
\* and the position of the call
InHandlerCtl ==
  UNCHANGED <<mgrVars, ret, hist, cfgVars, reqVars, fnVars>>

\* the call of generate_idea stays in the handler it is in
StaysInHandler == UNCHANGED <<pc, args, runs, outcome>>

\* the same, for the handlers before and after selection and
\* documentation
InHandler ==
  /\ InHandlerCtl
  /\ UNCHANGED <<docVars, pitch_response>>

\* a handler whose collaborator is called again once it has answered
HandlerReturns_calls_again ==
  /\ StaysInHandler
  /\ step' = "call"
  /\ acc' = <<>>
  /\ pos' = 1
  /\ UNCHANGED <<stage, runTrace>>

\* the handler stores its result and returns
HandlerReturns ==
  /\ StaysInHandler
  /\ step' = "done"
  /\ acc' = <<>>
  /\ pos' = 1
  /\ UNCHANGED <<stage, runTrace>>

\* generate_tone_and_themes parses the reply (genre_vibe_agent.py
\* 207-271); when tone or themes cannot be parsed it raises ValueError
ReplyGenre(parsed) ==
  /\ pc = "GENRE_SELECTION"
  /\ step = "awaiting"
  /\ InHandler
  /\ IF parsed
     THEN /\ genre_data' = "generated"
          /\ HandlerReturns
          /\ UNCHANGED <<pitches, evaluations, improved_pitches,
                         selected_pitch, trope_analysis>>
     ELSE CollaboratorRaises

\* The pitch reply and its parser (pitch_generator_agent.py). A reply is
\* a sequence of lines; a line is a "# Pitch N" separator, a "## Label"
\* heading, a "**Label:** text" line, a line of plain text or a blank
\* line. The text of a field is plain: it holds no marker of the grammar.

\* the five sections, in the order of the prompt and of the parser
Sections == <<"title", "hook", "premise", "main_conflict", "unique_twist">>

\* the texts a field of a record is drawn from
FieldTexts == {[kind |-> "text", n |-> 1], [kind |-> "text", n |-> 2]}

\* the sentinel "[Missing]" (lines 160, 169, 178, 187)
Missing == [kind |-> "[Missing]", n |-> 0]

\* the default title f"Untitled Pitch {i+1}", i counted from 0 (line 151)
UntitledPitch(i) == [kind |-> "Untitled Pitch", n |-> i + 1]

NoText == [kind |-> "", n |-> 0]

\* pitch records whose five fields are non-empty and sentinel-free
PitchRecords == [{Sections[k] : k \in 1..Len(Sections)} -> FieldTexts]

SeparatorLine(n) == [kind |-> "# Pitch", label |-> "", text |-> NoText,
                     n |-> n]
HeadingLine(label) == [kind |-> "##", label |-> label, text |-> NoText,
                       n |-> 0]
BoldLine(label, text) == [kind |-> "**", label |-> label, text |-> text,
                          n |-> 0]
TextLine(text) == [kind |-> "text", label |-> "", text |-> text, n |-> 0]
BlankLine == [kind |-> "blank", label |-> "", text |-> NoText, n |-> 0]

\* one section of a pitch in the layout the prompt prescribes (lines
\* 81-94): the heading, the text under it, a blank line
HeadingSection(r, k) ==
  <<HeadingLine(Sections[k]), TextLine(r[Sections[k]]), BlankLine>>

\* one section in the layout the parser's patterns read (lines 147-183):
\* the label in bold with a colon, the text on the same line, a blank line
BoldSection(r, k) ==
  <<BoldLine(Sections[k], r[Sections[k]]), BlankLine>>

\* a section is written when the record has a text for it
SectionLines(r, k, style) ==
  IF r[Sections[k]] = NoText THEN <<>>
  ELSE IF style = "headings" THEN HeadingSection(r, k)
       ELSE BoldSection(r, k)

\* the n-th pitch: "# Pitch n", then its five sections in order
PitchLines(r, n, style) ==
  <<SeparatorLine(n)>> \o SectionLines(r, 1, style)
    \o SectionLines(r, 2, style) \o SectionLines(r, 3, style)
    \o SectionLines(r, 4, style) \o SectionLines(r, 5, style)

RECURSIVE SerializeFrom(_, _, _)
SerializeFrom(R, n, style) ==
  IF n > Len(R) THEN <<>>
  ELSE PitchLines(R[n], n, style) \o SerializeFrom(R, n + 1, style)

\* the text of the records R, pitch after pitch
Serialize(R, style) == SerializeFrom(R, 1, style)

\* a reply that opens with a line of plain text before the first pitch,
\* or that is such a line only (an error message of the service, say)
WithPreamble(preamble, lines) ==
  IF preamble THEN <<TextLine(CHOOSE t \in FieldTexts : t.n = 1)>> \o lines
  ELSE lines

\* block.strip() is empty: the block has blank lines only (line 148)
IsEmptyBlock(block) ==
  \A k \in 1..Len(block) : block[k].kind = "blank"

\* re.split(r'#\s*Pitch\s+\d+|---', response) (line 146): the blocks of
\* lines between the separators, the empty ones included (no line of
\* these replies is a rule "---")
RECURSIVE SplitBlocks(_, _, _)
SplitBlocks(lines, k, block) ==
  IF k > Len(lines) THEN <<block>>
  ELSE IF lines[k].kind = "# Pitch"
       THEN <<block>> \o SplitBlocks(lines, k + 1, <<>>)
       ELSE SplitBlocks(lines, k + 1, Append(block, lines[k]))

\* block.strip() (line 148): the block without the blank lines at its
\* two ends
RECURSIVE StripLeft(_)
StripLeft(block) ==
  IF block # <<>> /\ Head(block).kind = "blank"
  THEN StripLeft(Tail(block)) ELSE block

RECURSIVE StripRight(_)
StripRight(block) ==
  IF block # <<>> /\ block[Len(block)].kind = "blank"
  THEN StripRight(SubSeq(block, 1, Len(block) - 1)) ELSE block

Strip(block) == StripRight(StripLeft(block))

\* the stripped blocks that are not empty (line 148)
pitch_blocks(lines) ==
  SelectSeq([k \in 1..Len(SplitBlocks(lines, 1, <<>>)) |->
               Strip(SplitBlocks(lines, 1, <<>>)[k])],
            LAMBDA b : ~IsEmptyBlock(b))

\* the line at which the text captured after the bold label on line k
\* ends, 0 when the pattern of the label does not match from line k
\* (the alternatives that close each pattern, lines 147, 156, 165, 174,
\* 183):
\*   title          "**" or the end of the line: a line must follow
\*   hook           "**" or an empty line: the next line is blank
\*   premise        "**Main", "**Conflict" or an empty line and "**"
\*   main_conflict  "**Unique", "**Twist" or an empty line and "**"
\*   unique_twist   an empty line or the end of the block
\* the value is the last line of the captured text
CaptureEnd(block, label, k) ==
  IF label = "title"
  THEN IF k < Len(block) THEN k ELSE 0
  ELSE IF label = "hook"
  THEN IF k < Len(block) /\ block[k + 1].kind = "blank" THEN k ELSE 0
  ELSE IF label = "unique_twist"
  THEN LET blanks == {j \in k + 1..Len(block) : block[j].kind = "blank"}
       IN  IF blanks = {} THEN Len(block)
           ELSE (CHOOSE j \in blanks : \A i \in blanks : j <= i) - 1
  ELSE LET next == IF label = "premise" THEN "main_conflict"
                   ELSE "unique_twist"
           closing == {j \in k + 1..Len(block) :
                         /\ block[j].kind = "**"
                         /\ \/ block[j].label = next
                            \/ block[j - 1].kind = "blank"}
       IN  IF closing = {} THEN 0
           ELSE (CHOOSE j \in closing : \A i \in closing : j <= i) - 1

\* re.search(r'\*\*Label:\*\*\s*(.*?)...', block): the first line of the
\* block that carries the label in bold and from which the pattern
\* matches, 0 when there is none
RECURSIVE SearchBold(_, _, _)
SearchBold(block, label, k) ==
  IF k > Len(block) THEN 0
  ELSE IF /\ block[k].kind = "**"
          /\ block[k].label = label
          /\ CaptureEnd(block, label, k) # 0
       THEN k
       ELSE SearchBold(block, label, k + 1)

\* group(1).strip(): the text of the label's line when only blank lines
\* follow it in the captured text, that text and the lines after it
\* otherwise
Captured(block, k, end) ==
  IF \A j \in k + 1..end : block[j].kind = "blank" THEN block[k].text
  ELSE [kind |-> "joined", n |-> end - k]

\* one field of the pitch: the matched text, or the default (lines
\* 147-187)
ExtractField(block, label, default) ==
  LET k == SearchBold(block, label, 1)
  IN  IF k = 0 THEN default
      ELSE Captured(block, k, CaptureEnd(block, label, k))

\* the pitch of the i-th block, i counted from 0 (lines 142-187)
ParseBlock(block, i) ==
  [s \in {Sections[k] : k \in 1..Len(Sections)} |->
     ExtractField(block, s,
                  IF s = "title" THEN UntitledPitch(i) ELSE Missing)]

\* the sections whose value is the sentinel (lines 190-191)
missing_sections(pitch) ==
  {s \in {Sections[k] : k \in 1..Len(Sections)} : pitch[s] = Missing}

TooManyMissing_five(pitch) == Cardinality(missing_sections(pitch)) >= 5

\* len(missing_sections) >= 4 (line 193)
TooManyMissing(pitch) == Cardinality(missing_sections(pitch)) >= 4

\* the loop over the blocks: a pitch with four or more missing sections
\* is skipped (lines 141-199)
RECURSIVE ParseBlocks(_, _)
ParseBlocks(blocks, k) ==
  IF k > Len(blocks) THEN <<>>
  ELSE LET pitch == ParseBlock(blocks[k], k - 1)
       IN  (IF TooManyMissing(pitch) THEN <<>> ELSE <<pitch>>) \o ParseBlocks(blocks, k + 1)

\* PitchGeneratorAgent._parse_pitches_response (lines 134-202)
parse_pitches_response(response) ==
  ParseBlocks(pitch_blocks(response), 1)

\* the layouts a reply is written in
Styles == {"headings", "bold"}

\* the replies of the service to the pitch prompt: up to MaxPitches
\* pitches with their five sections, in either layout, with or without a
\* line of text before them; with no pitch and a line of text, the reply
\* is that line only (an error message in place of the pitches)
PitchReplies == [blocks : 0..MaxPitches, style : Styles, preamble : BOOLEAN]

\* a pitch as the service writes it
WrittenPitch ==
  [s \in {Sections[k] : k \in 1..Len(Sections)} |->
     CHOOSE t \in FieldTexts : t.n = 1]

\* response (pitch_generator_agent.py 111)
ReplyText(reply) ==
  WithPreamble(reply.preamble,
               Serialize([k \in 1..reply.blocks |-> WrittenPitch],
                         reply.style))

NoValidPitches_never(parsed) == FALSE

\* `if not pitches` (pitch_generator_agent.py 120)
NoValidPitches(parsed) == parsed = <<>>

\* generate_pitches parses the reply and raises ValueError when the list
\* is empty (pitch_generator_agent.py 111-132); _run_pitch_generation
\* stores the list (facilitator_agent.py 147)
ReplyPitches(reply) ==
  /\ pc = "PITCH_GENERATION"
  /\ step = "awaiting"
  /\ InHandlerCtl
  /\ UNCHANGED docVars
  /\ pitch_response' = reply
  /\ LET parsed == parse_pitches_response(ReplyText(reply))
     IN  IF ~NoValidPitches(parsed)
         THEN /\ pitches' = ParsedPitches(Len(parsed))
              /\ HandlerReturns
              /\ UNCHANGED <<genre_data, evaluations, improved_pitches,
                             selected_pitch, trope_analysis>>
         ELSE CollaboratorRaises

\* evaluate_pitches, one request per pitch (critic_agent.py 77-144): the
\* reply is parsed into an evaluation; with no score line parsed,
\* sum(scores)/len(scores) divides by zero (133-134); with scores, the
\* evaluation carries overall_score (234-235, 252-254)
ReplyEvaluation(scored, s) ==
  /\ pc = "CRITIC_EVALUATION"
  /\ step = "awaiting"
  /\ InHandler
  /\ IF scored
     THEN LET a == Append(acc, ParsedEvaluation(s))
          IN  IF pos = Len(pitches)
              THEN /\ evaluations' = a
                   /\ HandlerReturns
                   /\ UNCHANGED <<genre_data, pitches, improved_pitches,
                                  selected_pitch, trope_analysis>>
              ELSE /\ acc' = a
                   /\ pos' = pos + 1
                   /\ step' = "call"
                   /\ StaysInHandler
                   /\ UNCHANGED <<stateVars, runTrace>>
     ELSE CollaboratorRaises

\* len(zip(pitches, evaluations))
ZipLen == IF Len(pitches) < Len(evaluations)
          THEN Len(pitches) ELSE Len(evaluations)

\* _improve_pitches appends p for the pair at pos and goes on with the
\* next pair, or returns the list, which _run_pitch_improvement stores
\* (facilitator_agent.py 557-593, 192)
ImprovedAppended(p) ==
  LET a == Append(acc, p)
  IN  IF pos = ZipLen
      THEN /\ improved_pitches' = a
           /\ HandlerReturns
           /\ UNCHANGED <<genre_data, pitches, evaluations, selected_pitch,
                          trope_analysis>>
      ELSE /\ acc' = a
           /\ pos' = pos + 1
           /\ step' = "call"
           /\ StaysInHandler
           /\ UNCHANGED <<stateVars, runTrace>>

\* the pair at pos meets the threshold: the pitch is passed through
\* (facilitator_agent.py 588-590)
ImproveKeep ==
  /\ pc = "PITCH_IMPROVEMENT"
  /\ step = "call"
  /\ ~NeedsImprovement(evaluations[pos])
  /\ InHandler
  /\ ImprovedAppended(pitches[pos])

\* improve_pitch (novel_writer/agents/improver_agent.py, absent from the
\* tree: taken as the improvement collaborator of the specification,
\* whose output is substituted for the pitch) answers with an improved
\* pitch, under the same or a new title, or with the pitch it was given
ReplyImprove(parsed, renamed) ==
  /\ pc = "PITCH_IMPROVEMENT"
  /\ step = "awaiting"
  /\ InHandler
  /\ LET p == pitches[pos]
         t == IF renamed THEN RevisedTitle(p.title) ELSE p.title
     IN  ImprovedAppended(IF parsed THEN [title |-> t, improved |-> TRUE]
                          ELSE p)

FallbackPitch_none(cands) == EmptyPitch

\* `if not winner_pitch and self.state.improved_pitches` (facilitator_
\* agent.py 224-226): the first pitch, when there is one
FallbackPitch(cands) == IF cands # <<>> THEN cands[1] ELSE EmptyPitch

\* a lookup that falls back to the last pitch of the list
WinnerPitch_last(cands, winner_title) ==
  IF \E k \in 1..Len(cands) : cands[k].title = winner_title
  THEN cands[CHOOSE k \in 1..Len(cands) :
               /\ cands[k].title = winner_title
               /\ \A j \in 1..(k - 1) : cands[j].title # winner_title]
  ELSE IF cands # <<>> THEN cands[Len(cands)] ELSE EmptyPitch

\* the winner lookup of _run_pitch_selection (facilitator_agent.py
\* 216-229): the first pitch with the winner's title, else the first
\* pitch of the list
WinnerPitch(cands, winner_title) ==
  IF \E k \in 1..Len(cands) : cands[k].title = winner_title
  THEN cands[CHOOSE k \in 1..Len(cands) :
               /\ cands[k].title = winner_title
               /\ \A j \in 1..(k - 1) : cands[j].title # winner_title]
  ELSE FallbackPitch(cands)

\* titles a selection can name: those of the candidates and 0, the title
\* of no candidate
WinnerTitles == {improved_pitches[k].title : k \in 1..Len(improved_pitches)}
                  \cup {0}

\* the keys _parse_selection always puts in its result (voter_agent.py
\* 246-250)
SelectionLists ==
  {"selection_criteria", "development_recommendations",
   "potential_challenges"}

\* select_best_pitch returns a selection with a winner title
\* (voter_agent.py 192-233); the handler adds the key selected_pitch,
\* stores the pitch and returns the selection, which generate_idea keeps
\* in a local (facilitator_agent.py 216-233, 329)
ReplySelection(winner_title) ==
  /\ pc = "PITCH_SELECTION"
  /\ step = "awaiting"
  /\ InHandlerCtl
  /\ selected_pitch' = WinnerPitch(improved_pitches, winner_title)
  /\ selection_data' =
       [keys |-> SelectionLists \cup {"winner", "selected_pitch"},
        winner |-> winner_title,
        selected_pitch |-> WinnerPitch(improved_pitches, winner_title)]
  /\ sink' = sink
  /\ pitch_response' = pitch_response
  /\ HandlerReturns
  /\ UNCHANGED <<genre_data, pitches, evaluations, improved_pitches,
                 trope_analysis>>

\* analyze_tropes parses the reply (tropemaster_agent.py 127-169)
ReplyTropes ==
  /\ pc = "TROPE_ANALYSIS"
  /\ step = "awaiting"
  /\ InHandler
  /\ trope_analysis' = "analysis"
  /\ HandlerReturns
  /\ UNCHANGED <<genre_data, pitches, evaluations, improved_pitches,
                 selected_pitch>>

\* _run_documentation calls compile_idea with state.selected_pitch, the
\* dict {"selected_pitch": state.selected_pitch} and state.trope_analysis
\* (facilitator_agent.py 270-279); compile_idea sends no request and may
\* raise while it builds the file (meeting_recorder_agent.py 39-143);
\* then the handler sets COMPLETED (facilitator_agent.py 282)
CompileIdea(ok) ==
  /\ pc = "DOCUMENTATION"
  /\ step = "call"
  /\ InHandlerCtl
  /\ sink' = [called |-> TRUE,
              selected_pitch |-> selected_pitch,
              selection_data |-> [keys |-> {"selected_pitch"},
                                  selected_pitch |-> selected_pitch],
              trope_analysis |-> trope_analysis]
  /\ selection_data' = selection_data
  /\ pitch_response' = pitch_response
  /\ IF ok
     THEN /\ stage' = "COMPLETED"
          /\ runTrace' = Append(runTrace, "COMPLETED")
          /\ step' = "done"
          /\ StaysInHandler
          /\ UNCHANGED <<genre_data, pitches, evaluations, improved_pitches,
                         selected_pitch, trope_analysis, loopVars>>
     ELSE CollaboratorRaises

\* generate_idea returns (facilitator_agent.py 340-352)
ReturnIdea ==
  /\ UNCHANGED <<fnVars, docVars, pitch_response>>
  /\ pc = "DOCUMENTATION"
  /\ step = "done"
  /\ pc' = "idle"
  /\ outcome' = "returned"
  /\ UNCHANGED <<mgrVars, ret, hist, cfgVars, step, args, runs, reqVars,
                 stateVars, loopVars, runTrace>>

NextRun ==
  \/ \E free_set \in BOOLEAN, paid_set \in BOOLEAN :
       SetupLlmConfig(free_set, paid_set)
  \/ \E manager_given \in BOOLEAN, api_key \in {NoKey, SingleKey} :
       LLMConfigDirect(manager_given, api_key)
  \/ \E a \in [tone : BOOLEAN, themes : BOOLEAN] : StartGenerateIdea(a)
  \/ EnterHandler
  \/ GenreProvided
  \/ SendRequest
  \/ \E kind \in {"rate_limit", "other"} : ServiceReplyError(kind)
  \/ \E parsed \in BOOLEAN : ReplyGenre(parsed)
  \/ \E reply \in PitchReplies : ReplyPitches(reply)
  \/ \E scored \in BOOLEAN, s \in Scores : ReplyEvaluation(scored, s)
  \/ ImproveKeep
  \/ \E parsed \in BOOLEAN, renamed \in BOOLEAN : ReplyImprove(parsed, renamed)
  \/ \E winner_title \in WinnerTitles : ReplySelection(winner_title)
  \/ ReplyTropes
  \/ \E ok \in BOOLEAN : CompileIdea(ok)
  \/ ReturnIdea

SpecRun == InitRun /\ [][NextRun]_vars

\* the steps of a call of generate_idea once it is made: the coroutine
\* runs on whenever it is not awaiting the service, and an awaited
\* request is answered, by a reply or by an exception
RunStep ==
  \/ EnterHandler
  \/ GenreProvided
  \/ SendRequest
  \/ \E kind \in {"rate_limit", "other"} : ServiceReplyError(kind)
  \/ \E parsed \in BOOLEAN : ReplyGenre(parsed)
  \/ \E reply \in PitchReplies : ReplyPitches(reply)
  \/ \E scored \in BOOLEAN, s \in Scores : ReplyEvaluation(scored, s)
  \/ ImproveKeep
  \/ \E parsed \in BOOLEAN, renamed \in BOOLEAN : ReplyImprove(parsed, renamed)
  \/ \E winner_title \in WinnerTitles : ReplySelection(winner_title)
  \/ ReplyTropes
  \/ \E ok \in BOOLEAN : CompileIdea(ok)
  \/ ReturnIdea

\* SpecRun where a call of generate_idea that can take a step
\* eventually takes one
SpecRunFair == SpecRun /\ WF_vars(RunStep)

---------------------------------------------------------------------------
(* SpecFn: functions of the package called on their own, on arguments
   drawn from bounded sets *)

MinLen(a, b) == IF Len(a) < Len(b) THEN Len(a) ELSE Len(b)

\* the values of a "scores" dict
ScoreSeqs == UNION {[1..n -> Scores] : n \in 0..MaxScores}

\* evaluations with the key "overall_score", beside at most one other
\* score, and evaluations without it
Evaluations ==
  {Evaluation(TRUE, o, q) : o \in Scores,
                            q \in {r \in ScoreSeqs : Len(r) <= 1}}
    \cup {Evaluation(FALSE, 0, q) : q \in ScoreSeqs}

EvaluationLists == UNION {[1..n -> Evaluations] : n \in 0..MaxCands}

ImproveCalls ==
  \E n \in 0..MaxCands, es \in EvaluationLists :
    fn_args = [fn |-> "_improve_pitches", pitches |-> ParsedPitches(n),
               evaluations |-> es]

\* for each pair of zip(pitches, evaluations), whether _improve_pitches
\* awaits improve_pitch for it (facilitator_agent.py 557-590)
ImproverCalls(ps, es) ==
  [k \in 1..MinLen(ps, es) |-> NeedsImprovement(es[k])]

\* _improve_pitches(pitches, evaluations, ...)
ImprovePitches ==
  /\ fn_args.fn = "_improve_pitches"
  /\ fn_result = NoResult
  /\ fn_result' = [kind |-> "improver_calls",
                   sent |-> ImproverCalls(fn_args.pitches,
                                          fn_args.evaluations)]
  /\ UNCHANGED <<fn_args, mgrVars, ret, hist, runVars>>

\* the score _select_fallback_winner gives an evaluation (voter_agent.py
\* 335-340), as the fraction n / d
fallback_score(evaluation) ==
  IF evaluation.has_overall THEN [n |-> evaluation.overall_score, d |-> 1]
  ELSE IF evaluation.scores # <<>>
       THEN [n |-> SumSeq(evaluation.scores), d |-> Len(evaluation.scores)]
       ELSE [n |-> 0, d |-> 1]

\* a > b for fractions with positive denominators
Greater(a, b) == a.n * b.d > b.n * a.d

\* a comparison that lets a later candidate win on an equal score
Beats_or_equals(score, highest_score) == ~Greater(highest_score, score)

\* `if score > highest_score` (voter_agent.py 344)
Beats(score, highest_score) == Greater(score, highest_score)

RECURSIVE HighestIndex(_, _, _, _)
\* the loop of _select_fallback_winner from evaluation k on (voter_agent.py
\* 331-346): highest_index, 0-based, when the loop ends
HighestIndex(es, k, highest_score, highest_index) ==
  IF k > Len(es) THEN highest_index
  ELSE IF Beats(fallback_score(es[k]), highest_score)
       THEN HighestIndex(es, k + 1, fallback_score(es[k]), k - 1)
       ELSE HighestIndex(es, k + 1, highest_score, highest_index)

\* _select_fallback_winner(pitches, evaluations) (voter_agent.py 315-353)
select_fallback_winner(ps, es) ==
  LET highest_index == HighestIndex(es, 1, [n |-> -1, d |-> 1], 0)
  IN  IF highest_index + 1 \in 1..Len(ps)
      THEN [kind |-> "title", title |-> ps[highest_index + 1].title]
      ELSE [kind |-> "IndexError"]

\* select_best_pitch from the parsed reply on (voter_agent.py 196-233):
\* has_winner says whether the reply had a line under "## Winner"
select_best_pitch(ps, es, has_winner, winner) ==
  IF has_winner
  THEN [kind |-> "selection", keys |-> SelectionLists \cup {"winner"},
        winner |-> winner, fallback |-> FALSE]
  ELSE LET w == select_fallback_winner(ps, es)
       IN  IF w.kind = "title"
           THEN [kind |-> "selection",
                 keys |-> SelectionLists \cup {"winner"},
                 winner |-> w.title, fallback |-> TRUE]
           ELSE [kind |-> "IndexError"]

\* the candidates and their evaluations as the workflow passes them: one
\* evaluation per pitch, at least one pitch
VoterCalls ==
  \E es \in EvaluationLists \ {<<>>}, hw \in BOOLEAN, w \in 0..1 :
    fn_args = [fn |-> "select_best_pitch",
               pitches |-> ParsedPitches(Len(es)),
               evaluations |-> es, has_winner |-> hw, winner |-> w]

SelectBestPitch ==
  /\ fn_args.fn = "select_best_pitch"
  /\ fn_result = NoResult
  /\ fn_result' = select_best_pitch(fn_args.pitches, fn_args.evaluations,
                                    fn_args.has_winner, fn_args.winner)
  /\ UNCHANGED <<fn_args, mgrVars, ret, hist, runVars>>

\* pitches as they stand after improvement: titles may repeat, and a
\* pitch is the improver's output or the pitch that was generated
Candidates == [title : 1..MaxCands, improved : BOOLEAN]

\* the improved pitches, the evaluations of the pitches they come from
\* and the winner of the selection (0 is the title of no pitch)
SelectionCalls ==
  \E n \in 1..MaxCands :
    \E c \in [1..n -> Candidates], sc \in [1..n -> Scores],
       w \in 0..MaxCands :
      fn_args = [fn |-> "_run_pitch_selection", improved_pitches |-> c,
                 evaluations |-> [k \in 1..n |-> ParsedEvaluation(sc[k])],
                 winner |-> w]

\* the lookup of _run_pitch_selection on the selection the voter returned
RunPitchSelection ==
  /\ fn_args.fn = "_run_pitch_selection"
  /\ fn_result = NoResult
  /\ fn_result' = [kind |-> "selected",
                   pitch |-> WinnerPitch(fn_args.improved_pitches,
                                         fn_args.winner)]
  /\ UNCHANGED <<fn_args, mgrVars, ret, hist, runVars>>

\* the calls of _parse_pitches_response: on the text of up to MaxCands
\* records, written in either layout
ParserCalls ==
  \E n \in 0..MaxCands :
    \E R \in [1..n -> PitchRecords], st \in Styles :
      fn_args = [fn |-> "_parse_pitches_response", R |-> R, style |-> st,
                 preamble |-> FALSE]

\* what a block of a reply may hold of a pitch: each section written or
\* left out
PartialRecords ==
  [{Sections[k] : k \in 1..Len(Sections)} ->
     {CHOOSE t \in FieldTexts : t.n = 1, NoText}]

\* the calls of _parse_pitches_response on any text: up to MaxCands
\* blocks with any of the sections left out, with or without a line of
\* text before the first block
AnyTextParserCalls ==
  \E n \in 0..MaxCands :
    \E R \in [1..n -> PartialRecords], st \in Styles, pre \in BOOLEAN :
      fn_args = [fn |-> "_parse_pitches_response", R |-> R, style |-> st,
                 preamble |-> pre]

ParsePitchesResponse ==
  /\ fn_args.fn = "_parse_pitches_response"
  /\ fn_result = NoResult
  /\ fn_result' = [kind |-> "pitches",
                   pitches |-> parse_pitches_response(
                                 WithPreamble(fn_args.preamble,
                                   Serialize(fn_args.R, fn_args.style)))]
  /\ UNCHANGED <<fn_args, mgrVars, ret, hist, runVars>>

\* The improver's reply and its parser (novelwriter_idea/agents/
\* improver_agent.py). The reply is read line by line; a "## Label" line
\* opens a section and the lines under it are its text.

\* the header "# Improved Pitch" of the reply (line 118)
MajorLine == [kind |-> "#", label |-> "", text |-> NoText, n |-> 0]

\* the keys of section_mappings other than the five fields (lines 231-232)
SpecialSections == {"improvements_made", "elements_preserved"}

\* a line as it is appended to section_content: the whole stripped line
\* (lines 236-237, 286)
LineText(line) ==
  IF line.kind = "**" THEN [kind |-> "**Label:** text", n |-> line.text.n]
  ELSE line.text

\* ' '.join(section_content) (lines 247, 291)
JoinContent(section_content) ==
  IF Len(section_content) = 1 THEN section_content[1]
  ELSE [kind |-> "joined", n |-> Len(section_content)]

\* the dict after the section collected so far is saved (lines 245-267
\* and 290-305); the lists of the two special sections are added to the
\* dict at the end (lines 308-314), here at once
SaveSection(improved_pitch, current_section, section_content) ==
  IF current_section = "" \/ section_content = <<>> THEN improved_pitch
  ELSE IF current_section \in SpecialSections
       THEN (current_section :>
               [kind |-> "list", n |-> Len(section_content)])
              @@ improved_pitch
       ELSE (current_section :> JoinContent(section_content))
              @@ improved_pitch

\* the loop over the lines of the response (lines 236-287)
RECURSIVE ImprovedLoop(_, _, _, _, _)
ImprovedLoop(lines, k, current_section, section_content, improved_pitch) ==
  IF k > Len(lines)
  THEN SaveSection(improved_pitch, current_section, section_content)
  ELSE LET line == lines[k]
       IN  IF line.kind = "blank"
           THEN ImprovedLoop(lines, k + 1, current_section,
                             section_content, improved_pitch)
           ELSE IF line.kind = "##"
           THEN ImprovedLoop(lines, k + 1, line.label, <<>>,
                             SaveSection(improved_pitch, current_section,
                                         section_content))
           ELSE IF line.kind \in {"#", "# Pitch"}
           THEN ImprovedLoop(lines, k + 1, current_section,
                             section_content, improved_pitch)
           ELSE IF current_section # ""
           THEN ImprovedLoop(lines, k + 1, current_section,
                             Append(section_content, LineText(line)),
                             improved_pitch)
           ELSE ImprovedLoop(lines, k + 1, current_section,
                             section_content, improved_pitch)

\* required_fields (line 317)
required_fields == {Sections[k] : k \in 1..Len(Sections)}

\* the dict with a placeholder for every required field it lacks (lines
\* 317-324)
FillMissing(improved_pitch) ==
  [f \in (DOMAIN improved_pitch) \cup required_fields |->
     IF f \in DOMAIN improved_pitch THEN improved_pitch[f] ELSE Missing]

\* ImproverAgent._parse_improved_pitch (lines 206-327)
parse_improved_pitch(response) ==
  FillMissing(ImprovedLoop(response, 1, "", <<>>, <<>>))

\* improve_pitch from the response on (lines 148-178): the parsed pitch
\* when the dict is not empty, the original pitch otherwise
improve_pitch(pitch, response) ==
  LET improved_pitch == parse_improved_pitch(response)
  IN  IF DOMAIN improved_pitch # {} THEN improved_pitch ELSE pitch

\* the improver's reply: the header, the sections of r that are written,
\* and, with notes, a section "## Improvements Made"
ImproverReply(r, style, notes) ==
  <<MajorLine>> \o SectionLines(r, 1, style) \o SectionLines(r, 2, style)
    \o SectionLines(r, 3, style) \o SectionLines(r, 4, style)
    \o SectionLines(r, 5, style)
    \o (IF notes
        THEN <<HeadingLine("improvements_made"),
               TextLine(CHOOSE t \in FieldTexts : t.n = 1)>>
        ELSE <<>>)

\* the pitch improve_pitch is given
OriginalPitch ==
  [s \in {Sections[k] : k \in 1..Len(Sections)} |->
     CHOOSE t \in FieldTexts : t.n = 2]

\* the calls of improve_pitch: the reply holds any of the sections, in
\* either layout
ImproverParseCalls ==
  \E r \in PartialRecords \cup PitchRecords, st \in Styles,
     notes \in BOOLEAN :
    fn_args = [fn |-> "improve_pitch", pitch |-> OriginalPitch,
               r |-> r, style |-> st, notes |-> notes]

ImprovePitch ==
  /\ fn_args.fn = "improve_pitch"
  /\ fn_result = NoResult
  /\ LET response == ImproverReply(fn_args.r, fn_args.style, fn_args.notes)
     IN  fn_result' = [kind |-> "improved",
                       parsed |-> parse_improved_pitch(response),
                       pitch |-> improve_pitch(fn_args.pitch, response)]
  /\ UNCHANGED <<fn_args, mgrVars, ret, hist, runVars>>

\* The critic's reply and its parser (critic_agent.py). The reply is read
\* line by line; the "- Label: n/10" lines under "## Scores" are the
\* scores.

\* the labels of score lines, as category keys (lines 226-227): two of
\* the criteria of the prompt and the overall score
Categories == {"originality", "genre_fit", "overall_score"}

\* "overall" in category (line 232)
IsOverall(category) == category = "overall_score"

\* the scores stated on a line
CriticScores == {4, 5, 10}

\* a line "- Label: n/10", which the pattern of line 224 matches
ScoreLine(category, score) ==
  [kind |-> "score", category |-> category, score |-> score]

\* a line "- ..." which the pattern does not match
ItemLine == [kind |-> "item", category |-> "", score |-> 0]

\* the header the lines of the reply stand under, if any
Headers == {"## Scores", "## Key Strengths", "none"}

CriticLines ==
  {ScoreLine(c, v) : c \in Categories, v \in CriticScores} \cup {ItemLine}

\* current_section after the header (lines 203-219)
SectionOf(header) ==
  IF header = "## Scores" THEN "scores"
  ELSE IF header = "## Key Strengths" THEN "strengths"
  ELSE "none"

\* the "scores" dict after the lines from k on (lines 222-229): a later
\* line of a category replaces the earlier one
RECURSIVE ScoresFrom(_, _, _)
ScoresFrom(lines, k, scores) ==
  IF k > Len(lines) THEN scores
  ELSE IF lines[k].kind = "score"
       THEN ScoresFrom(lines, k + 1,
                       (lines[k].category :> lines[k].score) @@ scores)
       ELSE ScoresFrom(lines, k + 1, scores)

\* the positions of the score lines that state an overall score
OverallLines(lines) ==
  {k \in 1..Len(lines) :
     lines[k].kind = "score" /\ IsOverall(lines[k].category)}

\* the greatest element of a non-empty set of numbers
Last(S) == CHOOSE k \in S : \A j \in S : j <= k

\* sum(scores.values()) (line 252)
RECURSIVE SumValues(_)
SumValues(scores) ==
  IF DOMAIN scores = {} THEN 0
  ELSE LET c == CHOOSE c \in DOMAIN scores : TRUE
       IN  scores[c] +
           SumValues([d \in DOMAIN scores \ {c} |-> scores[d]])

\* a score as a fraction: a stated score is n/1, the mean of line 252 is
\* sum/len (line 252)
Fraction(num, den) == [num |-> num, den |-> den]

\* sum(scores.values()) / len(scores) (line 252)
MeanOfAll(scores) ==
  Fraction(SumValues(scores), Cardinality(DOMAIN scores))

OverallOf_mean(stated, scores) == MeanOfAll(scores)

\* evaluation["overall_score"] when a line states it (lines 232-233)
OverallOf(stated, scores) == Fraction(stated, 1)

\* CriticAgent._parse_evaluation (lines 175-273): keys is the set of keys
\* of the dict it returns; without the key overall_score the field of
\* that name holds no score (0/0)
parse_evaluation(header, lines) ==
  LET scores == IF SectionOf(header) = "scores"
                THEN ScoresFrom(lines, 1, <<>>) ELSE <<>>
      overall == IF SectionOf(header) = "scores"
                 THEN OverallLines(lines) ELSE {}
      base == {"scores", "key_strengths", "areas_for_improvement"}
  IN  IF overall # {}
      THEN [keys |-> base \cup {"overall_score"}, scores |-> scores,
            overall_score |-> OverallOf(lines[Last(overall)].score, scores)]
      ELSE IF DOMAIN scores # {}
      THEN [keys |-> base \cup {"overall_score"}, scores |-> scores,
            overall_score |-> MeanOfAll(scores)]
      ELSE [keys |-> base, scores |-> scores,
            overall_score |-> Fraction(0, 0)]

\* the calls of _parse_evaluation: up to MaxLines lines under a header
\* or under none
CriticParseCalls ==
  \E n \in 0..MaxLines :
    \E lines \in [1..n -> CriticLines], h \in Headers :
      fn_args = [fn |-> "_parse_evaluation", header |-> h, lines |-> lines]

ParseEvaluation ==
  /\ fn_args.fn = "_parse_evaluation"
  /\ fn_result = NoResult
  /\ fn_result' = [kind |-> "evaluation",
                   evaluation |-> parse_evaluation(fn_args.header,
                                                   fn_args.lines)]
  /\ UNCHANGED <<fn_args, mgrVars, ret, hist, runVars>>

\* The improvement stage as a function of the state it starts from and
\* of what the improver answers (facilitator_agent.py 174-195, 553-593).

\* what improve_pitch can answer for a pitch: the pitch it was given, or
\* an improved pitch under the same or a new title
ImproverOutputs(p) ==
  {p, [title |-> p.title, improved |-> TRUE],
      [title |-> RevisedTitle(p.title), improved |-> TRUE]}

ImprovedEntry_always(pitch, evaluation, improved_pitch) == improved_pitch

\* the entry appended for a pair (lines 573-590): the improver's answer
\* below the threshold, the pitch itself otherwise
ImprovedEntry(pitch, evaluation, improved_pitch) ==
  IF NeedsImprovement(evaluation) THEN improved_pitch ELSE pitch

\* _improve_pitches (lines 553-593): one entry per pair of zip(pitches,
\* evaluations), in order; outputs[k] is the improver's answer for pair k
improve_pitches(ps, es, outputs) ==
  [k \in 1..MinLen(ps, es) |-> ImprovedEntry(ps[k], es[k], outputs[k])]

\* _run_pitch_improvement (lines 174-195) on the fields of State it
\* reads and writes
run_pitch_improvement(state, outputs) ==
  [state EXCEPT
     !.stage = "PITCH_IMPROVEMENT",
     !.improved_pitches =
        improve_pitches(state.pitches, state.evaluations, outputs)]

\* the calls of _run_pitch_improvement: up to MaxCands pitches with one
\* evaluation each, and an answer of the improver for each
ImprovementStageCalls ==
  \E n \in 0..MaxCands :
    \E sc \in [1..n -> Scores] :
      \E outputs \in [1..n -> UNION {ImproverOutputs(ParsedPitches(n)[k]) :
                                      k \in 1..n}] :
        /\ \A k \in 1..n : outputs[k] \in ImproverOutputs(ParsedPitches(n)[k])
        /\ fn_args =
             [fn |-> "_run_pitch_improvement",
              state |-> [stage |-> "CRITIC_EVALUATION",
                         pitches |-> ParsedPitches(n),
                         evaluations |->
                           [k \in 1..n |-> ParsedEvaluation(sc[k])],
                         improved_pitches |-> <<>>],
              outputs |-> outputs]

RunPitchImprovement ==
  /\ fn_args.fn = "_run_pitch_improvement"
  /\ fn_result = NoResult
  /\ fn_result' = [kind |-> "state",
                   state |-> run_pitch_improvement(fn_args.state,
                                                   fn_args.outputs)]
  /\ UNCHANGED <<fn_args, mgrVars, ret, hist, runVars>>

FnCalls ==
  \/ ImproveCalls
  \/ VoterCalls
  \/ SelectionCalls
  \/ ParserCalls
  \/ AnyTextParserCalls
  \/ ImproverParseCalls
  \/ CriticParseCalls
  \/ ImprovementStageCalls

InitFn ==
  /\ free_keys = <<>>
  /\ paid_keys = <<>>
  /\ current_key_index = 0
  /\ using_free_keys = TRUE
  /\ exhausted_keys = {}
  /\ ret = NoRet
  /\ hist = <<>>
  /\ NothingRun
  /\ FnCalls
  /\ fn_result = NoResult

NextFn ==
  \/ ImprovePitches
  \/ SelectBestPitch
  \/ RunPitchSelection
  \/ ParsePitchesResponse
  \/ ImprovePitch
  \/ ParseEvaluation
  \/ RunPitchImprovement

SpecFn == InitFn /\ [][NextFn]_vars

---------------------------------------------------------------------------
(* Properties of the manager, checked under Spec *)

\* the keys named by the mark_key_exhausted calls made so far, in order
MarkedKeys ==
  LET marks == SelectSeq(hist, LAMBDA e : e[1] = "mark")
  IN  [i \in 1..Len(marks) |-> marks[i][2]]

LastIsGet == hist # <<>> /\ hist[Len(hist)] = <<"get">>

PaidRet(i) == [kind |-> "key", key |-> PaidKey(i), is_free |-> FALSE]

FreeExhausted == exhausted_keys \cap Range(free_keys)
PaidExhausted == exhausted_keys \cap Range(paid_keys)

\* C1: with 2 free keys and 1 paid key, once the two distinct free keys
\* have been reported exhausted the next get_current_key returns the paid
\* key with is_free = FALSE; after a further report of that only paid key,
\* get_current_key returns the same paid key, and the reset has taken it
\* out of the exhausted set.
C1_FailoverSequence ==
  (Len(free_keys) = 2 /\ Len(paid_keys) = 1 /\ LastIsGet) =>
    /\ MarkedKeys \in {<<FreeKey(1), FreeKey(2)>>, <<FreeKey(2), FreeKey(1)>>}
         => ret = PaidRet(1)
    /\ MarkedKeys \in {<<FreeKey(1), FreeKey(2), PaidKey(1)>>,
                       <<FreeKey(2), FreeKey(1), PaidKey(1)>>}
         => ret = PaidRet(1) /\ PaidKey(1) \notin exhausted_keys

C1_Witness ==
  /\ hist = << <<"mark", FreeKey(1)>>, <<"mark", FreeKey(2)>>, <<"get">>,
               <<"mark", PaidKey(1)>>, <<"get">> >>
  /\ ret = PaidRet(1)

\* C2: with at least one key configured, get_current_key never raises,
\* whatever was reported exhausted before, and it leaves the active pool
\* with a key that is not exhausted.
C2_NoPermanentLockout ==
  (Len(free_keys) + Len(paid_keys) >= 1 /\ LastIsGet) =>
    /\ ret.kind = "key"
    /\ ~AllExhausted(ActivePool(Mgr), exhausted_keys)

\* C3: the key returned by get_current_key is a key of the active pool
\* and is not in exhausted_keys when it is returned.
C3_AcquiredKeyNotExhausted ==
  (LastIsGet /\ ret.kind = "key") =>
    /\ ret.key \in Range(ActivePool(Mgr))
    /\ ret.key \notin exhausted_keys

\* C4: using_free_keys goes from TRUE to FALSE only in a step after which
\* every free key is in exhausted_keys (vacuous without free keys) and
\* the cursor is 0; and once get_current_key has returned a paid key,
\* every later get_current_key returns a paid key.
C4_OneWaySwitch ==
  [][ /\ (using_free_keys /\ ~using_free_keys')
           => /\ AllExhausted(free_keys, exhausted_keys')
              /\ current_key_index' = 0
      /\ ~using_free_keys => ~using_free_keys'
      /\ (ret.kind = "key" /\ ~ret.is_free)
           => (ret'.kind = "key" /\ ~ret'.is_free) ]_vars

\* the switch happened with free keys configured, the paid pool was then
\* exhausted and reset, and get_current_key still returns a paid key
C4_Witness ==
  /\ free_keys # <<>>
  /\ ~using_free_keys
  /\ \E i \in 1..Len(hist) : hist[i] \in {<<"mark", PaidKey(1)>>}
  /\ LastIsGet
  /\ exhausted_keys = {}
  /\ ret.kind = "key" /\ ~ret.is_free

\* C5: when mark_key_exhausted(k) is directly followed by get_current_key
\* and, in between, the active pool holds another key that is not
\* exhausted, the key returned differs from k.
C5_NextAcquireDiffers ==
  [][ ( /\ hist # <<>>
        /\ hist[Len(hist)][1] = "mark"
        /\ hist' = Append(hist, <<"get">>)
        /\ \E k2 \in Range(ActivePool(Mgr)) :
              k2 # hist[Len(hist)][2] /\ k2 \notin exhausted_keys )
      => (ret'.kind = "key" /\ ret'.key # hist[Len(hist)][2]) ]_vars

\* C6: a step on the active pool (a mark of one of its keys, or the reset
\* in get_current_key) leaves the exhausted status of every key of the
\* other pool as it was.
C6_IndependentTiers ==
  [][ IF ActiveIsFree(Mgr)
      THEN PaidExhausted' = PaidExhausted
      ELSE FreeExhausted' = FreeExhausted ]_vars

\* C30: on a manager whose two pools are non-empty, whatever calls of
\* get_api_key, get_current_key and mark_key_exhausted came before, a
\* call of get_api_key returns a key of the pool it reads (the free pool
\* for use_free = True, the paid pool otherwise): the shared cursor is a
\* valid index of that pool and the call does not raise IndexError.
C30_CursorAlwaysValid ==
  [][\A use_free \in BOOLEAN :
       (GetApiKey(use_free) /\ free_keys # <<>> /\ paid_keys # <<>>)
         => /\ ret'.kind = "key"
            /\ ret'.key \in Range(IF use_free THEN free_keys
                                  ELSE paid_keys)]_vars

---------------------------------------------------------------------------
(* Properties of requests and of the workflow, checked under SpecRun *)

\* C7: every request runs in a loop of at most 3 attempts: an attempt
\* that fails with a rate-limit, quota or capacity error has its key
\* reported exhausted and the request is sent again, so such a failure
\* reaches the handler only after the 3rd failed attempt
C7_BoundedRetry ==
  lastErr = "rate_limit" =>
    /\ attempts = 3
    /\ has_manager => req_key \in exhausted_keys

\* C8: a request that fails with an error that is not a rate-limit, quota
\* or capacity error is not sent again: the error leaves the request
\* after exactly one attempt, ends the handler's request (in every handler
\* but genre selection, ends the run in ERROR), and the manager's
\* exhausted set, cursor and active pool are as before
C8_OtherErrorNotRetried ==
  [][ (lastErr # "other" /\ lastErr' = "other") =>
        /\ attempts' = 1
        /\ step' = "done"
        /\ pc # "GENRE_SELECTION" => (stage' = "ERROR" /\ outcome' = "raised")
        /\ UNCHANGED mgrVars ]_vars

\* a request sent with a key of the manager failed with another error
C8_Witness ==
  /\ lastErr = "other"
  /\ attempts = 1
  /\ has_manager
  /\ req_key \in AllKeys
  /\ stage = "ERROR"

\* neither pool holds a key and no single key was given
NoCredentials ==
  /\ free_keys = <<>>
  /\ paid_keys = <<>>
  /\ single_api_key = NoKey

\* C9: with no credential configured at all, building the configuration
\* fails: no run of the workflow starts, no stage is entered and no
\* get_current_key call of a stage is where the missing keys show
C9_FailFastAtStartup ==
  NoCredentials =>
    /\ pc \in {"startup", "startup_failed"}
    /\ stage = "INITIAL"
    /\ ret.kind # "ValueError"

\* the order of the stages named by the claim
C10_Order ==
  << "GENRE_SELECTION", "PITCH_GENERATION", "CRITIC_EVALUATION",
     "PITCH_IMPROVEMENT", "PITCH_SELECTION", "TROPE_ANALYSIS",
     "DOCUMENTATION", "COMPLETED" >>

IsPrefix(s, t) ==
  /\ Len(s) <= Len(t)
  /\ \A k \in 1..Len(s) : s[k] = t[k]

\* the stages of the run so far, a final ERROR left out
StagesBeforeError ==
  IF runTrace # <<>> /\ runTrace[Len(runTrace)] = "ERROR"
  THEN SubSeq(runTrace, 1, Len(runTrace) - 1)
  ELSE runTrace

\* the values stage has taken in the run are the first stages of the
\* order, each once, then possibly ERROR
StagesInOrder ==
  runs > 0 =>
    /\ StagesBeforeError # <<>>
    /\ IsPrefix(StagesBeforeError, C10_Order)
    /\ stage = runTrace[Len(runTrace)]

\* a change of stage goes to ERROR, to the first stage when a run starts,
\* or to the stage after the current one; a handler's stage is entered
\* only when the handler before it has returned
StageStep ==
  stage' # stage =>
    \/ stage' = "ERROR"
    \/ /\ stage' = "GENRE_SELECTION"
       /\ pc = "idle"
       /\ runs' = runs + 1
    \/ \E k \in 1..(Len(C10_Order) - 1) :
         /\ stage = C10_Order[k]
         /\ stage' = C10_Order[k + 1]
         /\ stage' # "COMPLETED" => (pc = stage /\ step = "done")

\* C10: in a run of generate_idea, stage takes its values only in the
\* order GENRE_SELECTION, PITCH_GENERATION, CRITIC_EVALUATION,
\* PITCH_IMPROVEMENT, PITCH_SELECTION, TROPE_ANALYSIS, DOCUMENTATION,
\* COMPLETED: none is skipped or entered twice, a stage is entered only
\* after the handler of the stage before it returned, and the only other
\* transition is to ERROR
C10_StageOrder == []StagesInOrder /\ [][StageStep]_vars

\* a run that went through every stage and returned
C10_Witness ==
  /\ stage = "COMPLETED"
  /\ runTrace = C10_Order
  /\ outcome = "returned"

\* the stage after stage st in the order of the stages
StageAfter(st) ==
  C10_Order[(CHOOSE k \in 1..(Len(C10_Order) - 1) : C10_Order[k] = st) + 1]

\* the handler in progress has returned without an error of its
\* collaborator
HandlerSucceeded ==
  /\ pc \in Range(StageOrder)
  /\ step = "done"
  /\ lastErr = "none"
  /\ genre_data # "default"

\* C11: when a stage handler completes successfully, state.stage is the
\* next stage of the sequence: PITCH_GENERATION after _run_genre_selection,
\* CRITIC_EVALUATION after _run_pitch_generation, and so on up to
\* COMPLETED after _run_documentation
C11_HandlerAdvancesStage ==
  HandlerSucceeded => stage = StageAfter(pc)

\* C12: an exception raised by a collaborator in any stage, genre
\* selection included (a failed request or tone and themes that cannot
\* be parsed), moves the run to ERROR and is raised to the caller of
\* generate_idea; no run goes on with default genre data put in place of
\* the collaborator's result
C12_CollaboratorFailureEndsRun ==
  /\ lastErr # "none" => (stage = "ERROR" /\ outcome = "raised")
  /\ genre_data # "default"

\* C13: a run in which a collaborator fails ends in ERROR with a message
\* that names the failing stage held in the error field of the state
C13_ErrorMessageStored ==
  stage = "ERROR" => "error" \in StateAttributes

\* C14: ERROR and COMPLETED are terminal: once stage is one of them, no
\* operation on the same agent, a further generate_idea call included,
\* changes any field of the state, stage included
C14_TerminalStagesFrozen ==
  [][ (stage = "ERROR" \/ stage = "COMPLETED") => UNCHANGED stateVars ]_vars

SinkHasRationale ==
  /\ SelectionLists \subseteq sink.selection_data.keys
  /\ sink.selection_data.keys = selection_data.keys

\* C19: when compile_idea has been called in DOCUMENTATION, it was called
\* with three records, each the value held from the stage that produced
\* it: the selected pitch, the selection made in PITCH_SELECTION with its
\* selection_criteria, development_recommendations and
\* potential_challenges, and the trope analysis.
C19_SinkReceivesRecords ==
  sink.called =>
    /\ sink.selected_pitch = selected_pitch
    /\ SinkHasRationale
    /\ sink.trope_analysis = trope_analysis

\* no pattern of the parser finds its label in the reply: the sections
\* stand under "## " headings, or the reply has no pitch at all
C25_NothingDetected(reply) ==
  reply # NoResponse /\ (reply.style = "headings" \/ reply.blocks = 0)

\* the stages after PITCH_GENERATION
C25_LaterStages ==
  {StageOrder[k] : k \in StagePos("PITCH_GENERATION") + 1..Len(StageOrder)}

\* no stage after PITCH_GENERATION runs with an empty pitch list
C25_NoEmptyList == pc \in C25_LaterStages => pitches # <<>>

\* the step in which generate_pitches gets a reply in which nothing is
\* detected: the parser returns the empty list, the stage fails and
\* state.pitches is left as it was, empty in the first run of the agent
C25_FailedStage ==
  (pc = "PITCH_GENERATION" /\ step = "awaiting"
     /\ C25_NothingDetected(pitch_response')) =>
    /\ parse_pitches_response(ReplyText(pitch_response')) = <<>>
    /\ outcome' = "raised"
    /\ stage' = "ERROR"
    /\ pc' = "idle"
    /\ pitches' = pitches
    /\ runs = 1 => pitches' = <<>>

C29_Running == pc \in Range(StageOrder)

\* the call is over, with the state in COMPLETED or ERROR
C29_Ended == pc = "idle" /\ stage \in {"COMPLETED", "ERROR"}

\* the requests sent since generate_idea was called: at most one in each
\* of the four single-request handlers, and in the two loops one for
\* each pitch reached so far (exactly so in CRITIC_EVALUATION, at most
\* so in PITCH_IMPROVEMENT)
C29_RequestsBounded ==
  /\ \A h \in {"GENRE_SELECTION", "PITCH_GENERATION", "PITCH_SELECTION",
               "TROPE_ANALYSIS"} : requests[h] <= 1
  /\ requests["CRITIC_EVALUATION"] <= Len(pitches)
  /\ requests["PITCH_IMPROVEMENT"] <= Len(pitches)
  /\ \A h \in {"CRITIC_EVALUATION", "PITCH_IMPROVEMENT"} :
       pc = h /\ step # "done" =>
         requests[h] <= IF step = "call" THEN pos - 1 ELSE pos
  /\ pc = "CRITIC_EVALUATION" /\ step = "awaiting" =>
       requests["CRITIC_EVALUATION"] = pos
  /\ stage = "COMPLETED" =>
       /\ requests["PITCH_GENERATION"] = 1
       /\ requests["CRITIC_EVALUATION"] = Len(pitches)
       /\ requests["PITCH_SELECTION"] = 1
       /\ requests["TROPE_ANALYSIS"] = 1

\* no stage occurs twice among the stages a call has entered
C29_NoStageReentered ==
  \A i, j \in 1..Len(runTrace) : i < j => runTrace[i] # runTrace[j]

---------------------------------------------------------------------------
(* Properties of the functions, checked under SpecFn *)

\* the score of a pair is defined: the evaluation has an overall score or
\* at least one score
C16_HasScore(e) == e.has_overall \/ e.scores # <<>>

\* the score of a pair, overall_score when present and otherwise the mean
\* of the scores, is strictly below 7.5
C16_BelowThreshold(e) ==
  IF e.has_overall THEN e.overall_score < 750
  ELSE SumSeq(e.scores) < 750 * Len(e.scores)

C18_Score(e) ==
  IF e.has_overall THEN [n |-> e.overall_score, d |-> 1]
  ELSE IF e.scores # <<>> THEN [n |-> SumSeq(e.scores), d |-> Len(e.scores)]
  ELSE [n |-> 0, d |-> 1]

C18_AtLeast(a, b) == a.n * b.d >= b.n * a.d

\* C18: when the selection reply has no winner, select_best_pitch does
\* not fail: its result has the keys winner, selection_criteria and
\* development_recommendations, and the winner is the title of the
\* candidate with the highest evaluation score, the earliest one on ties
C18_FallbackWinner ==
  (fn_args.fn = "select_best_pitch" /\ fn_result # NoResult
     /\ ~fn_args.has_winner) =>
    /\ fn_result.kind = "selection"
    /\ {"winner", "selection_criteria", "development_recommendations"}
         \subseteq fn_result.keys
    /\ \E k \in 1..Len(fn_args.pitches) :
         /\ fn_result.winner = fn_args.pitches[k].title
         /\ \A j \in 1..Len(fn_args.evaluations) :
              C18_AtLeast(C18_Score(fn_args.evaluations[k]),
                          C18_Score(fn_args.evaluations[j]))
         /\ \A j \in 1..(k - 1) :
              ~C18_AtLeast(C18_Score(fn_args.evaluations[j]),
                           C18_Score(fn_args.evaluations[k]))

\* no winner in the reply; the second candidate, whose scores average
\* 7.495, wins over the first at 7.49, and ties with no one
C18_Witness ==
  /\ fn_args.fn = "select_best_pitch"
  /\ ~fn_args.has_winner
  /\ fn_args.evaluations =
       << Evaluation(TRUE, 749, <<>>), Evaluation(FALSE, 0, <<749, 750>>) >>
  /\ fn_result.kind = "selection"
  /\ fn_result.winner = 2

\* positions of the candidates whose title is exactly the winner string
C17_Matches ==
  {k \in 1..Len(fn_args.improved_pitches) :
     fn_args.improved_pitches[k].title = fn_args.winner}

\* C17: the selected pitch is the first candidate of improved_pitches
\* whose title equals the winner string exactly; when no title matches,
\* it is the first candidate of the list, not the highest-scoring one
C17_WinnerResolution ==
  fn_result.kind = "selected" =>
    IF C17_Matches # {}
    THEN fn_result.pitch =
           fn_args.improved_pitches[
             CHOOSE k \in C17_Matches : \A j \in C17_Matches : k <= j]
    ELSE fn_result.pitch = fn_args.improved_pitches[1]

\* no title matches the winner and the second candidate scores higher
\* than the first: the first candidate is selected
C17_Witness ==
  /\ fn_result.kind = "selected"
  /\ C17_Matches = {}
  /\ Len(fn_args.improved_pitches) = 2
  /\ fn_args.improved_pitches[1] # fn_args.improved_pitches[2]
  /\ fn_args.evaluations[1].overall_score
       < fn_args.evaluations[2].overall_score
  /\ fn_result.pitch = fn_args.improved_pitches[1]


\* the parser was called on the text of the records R in the layout of the
\* prompt, and has returned
C20_ParsedHeadings ==
  /\ fn_args.fn = "_parse_pitches_response"
  /\ fn_args.style = "headings"
  /\ ~fn_args.preamble
  /\ \A k \in 1..Len(fn_args.R) : fn_args.R[k] \in PitchRecords
  /\ fn_result # NoResult

\* C20: for every list R of pitch records with five non-empty,
\* sentinel-free fields, parsing the text that writes R as "# Pitch N"
\* followed by "## Title", "## Hook", "## Premise", "## Main Conflict" and
\* "## Unique Twist" gives R again, same records in the same order.
C20_ParserRoundTrip ==
  C20_ParsedHeadings => fn_result.pitches = fn_args.R

\* the pitch parser has returned
C21_PitchesParsed ==
  fn_args.fn = "_parse_pitches_response" /\ fn_result # NoResult

\* the improved-pitch parser has returned
C21_ImprovedParsed ==
  fn_args.fn = "improve_pitch" /\ fn_result # NoResult

\* the record has the five fields
C21_AllPresent(pitch) == required_fields \subseteq DOMAIN pitch

\* the value is the sentinel or a text of the reply
C21_ExtractedOrSentinel(v) ==
  v = Missing \/ v.kind \in {"text", "joined", "**Label:** text"}

\* C21: every record the pitch parser returns, and the record the
\* improved-pitch parser returns, has the five fields title, hook,
\* premise, main_conflict and unique_twist, each one extracted from the
\* text or equal to the sentinel "[Missing]".
C21_SentinelTotality ==
  /\ C21_PitchesParsed =>
       \A k \in 1..Len(fn_result.pitches) :
         /\ C21_AllPresent(fn_result.pitches[k])
         /\ \A f \in required_fields :
              C21_ExtractedOrSentinel(fn_result.pitches[k][f])
  /\ C21_ImprovedParsed =>
       /\ C21_AllPresent(fn_result.parsed)
       /\ \A f \in required_fields :
            C21_ExtractedOrSentinel(fn_result.parsed[f])

\* the number of sentinel-valued fields of a record
C22_Sentinels(pitch) ==
  Cardinality({f \in required_fields : pitch[f] = Missing})

\* the records parsed from the blocks of the reply, before the gate
C22_Parsed ==
  LET blocks == pitch_blocks(WithPreamble(fn_args.preamble,
                               Serialize(fn_args.R, fn_args.style)))
  IN  [k \in 1..Len(blocks) |-> ParseBlock(blocks[k], k - 1)]

\* C22: the list the pitch parser returns holds the parsed records with
\* at most 3 of 5 fields sentinel-valued, in their order in the text; a
\* record with 4 of 5 fields sentinel-valued is not in the list.
C22_ValidityGate ==
  C21_PitchesParsed =>
    /\ fn_result.pitches =
         SelectSeq(C22_Parsed, LAMBDA p : C22_Sentinels(p) <= 3)
    /\ \A k \in 1..Len(fn_result.pitches) :
         C22_Sentinels(fn_result.pitches[k]) # 4

\* a reply of two blocks, one parsed to 4 sentinel fields and dropped,
\* the other parsed to 3 sentinel fields and kept
C22_Witness ==
  /\ C21_PitchesParsed
  /\ Len(C22_Parsed) = 2
  /\ C22_Sentinels(C22_Parsed[1]) = 4
  /\ C22_Sentinels(C22_Parsed[2]) = 3
  /\ fn_result.pitches = <<C22_Parsed[2]>>

\* the improver's reply has no heading of a pitch field: the sections are
\* written in bold, or none is written
C28_NoFieldHeading ==
  \/ fn_args.style = "bold"
  \/ \A f \in required_fields : fn_args.r[f] = NoText

\* C28: when the reply of the improver has no heading of a pitch field,
\* improve_pitch returns the original pitch unchanged; and improve_pitch
\* never returns a record with 4 or more of the 5 fields equal to the
\* sentinel "[Missing]".
C28_ImproverFallback ==
  C21_ImprovedParsed =>
    /\ C28_NoFieldHeading => fn_result.pitch = fn_args.pitch
    /\ C22_Sentinels(fn_result.pitch) < 4

\* the critic's parser has returned, and the lines stood under "## Scores"
C23_Parsed ==
  /\ fn_args.fn = "_parse_evaluation"
  /\ fn_args.header = "## Scores"
  /\ fn_result # NoResult

\* the categories stated on the lines, each with the value of its last
\* line
C23_Stated ==
  {c \in Categories :
     \E k \in 1..Len(fn_args.lines) :
       fn_args.lines[k].kind = "score" /\ fn_args.lines[k].category = c}

C23_ValueOf(c) ==
  fn_args.lines[Last({k \in 1..Len(fn_args.lines) :
                        /\ fn_args.lines[k].kind = "score"
                        /\ fn_args.lines[k].category = c})].score

RECURSIVE C23_Sum(_)
C23_Sum(cs) ==
  IF cs = {} THEN 0
  ELSE LET c == CHOOSE c \in cs : TRUE
       IN  C23_ValueOf(c) + C23_Sum(cs \ {c})

\* the fractions a and b are the same number
C23_Equal(a, b) == a.den # 0 /\ b.den # 0 /\ a.num * b.den = b.num * a.den

C24_OverallAlwaysPresent ==
  (fn_args.fn = "_parse_evaluation" /\ fn_result # NoResult) =>
    "overall_score" \in fn_result.evaluation.keys

\* the improvement stage has run
C27_StageRan ==
  fn_args.fn = "_run_pitch_improvement" /\ fn_result # NoResult

\* the score of pair k is below 7.5
C27_Below(k) ==
  fn_args.state.evaluations[k].overall_score < ThresholdScore

=============================================================================
